---- MODULE Spec2Model ----
(***************************************************************************)
(* Model of ros_openpose's node (src/src/rosOpenpose.cpp): main's startup  *)
(* and shutdown sequence, the input worker WUserInput, the output worker   *)
(* WUserOutput, and the camera reader both workers share.                  *)
(*                                                                         *)
(* The camera reader (ros_openpose/cameraReader.hpp) is not among the      *)
(* sources; its operations are modelled from the specification: it keeps   *)
(* the latest color and depth image under a mutex, copies the latest depth *)
(* image on request and projects a pixel with the pinhole camera model.    *)
(*                                                                         *)
(* The pose estimator is an external library.  Of it the model keeps only  *)
(* what the node's code relies on: workers set with setWorker run on the   *)
(* library's threads between start() and stop(), a worker that called      *)
(* stop() is not called again, datums returned by the producer reach the   *)
(* consumer in order with keypoints of the estimator's choosing, and with  *)
(* multi-threading disabled the workers run one after the other.           *)
(***************************************************************************)
EXTENDS Integers, Sequences, FiniteSets, TLC

(* ------------------------------ bounds --------------------------------- *)
\* number of color images the camera delivers in a run
MaxColor == 2
\* number of depth images the camera delivers in a run
MaxDepth == 2
\* datums that can be inside the pose estimator at once
MaxInFlight == 1
\* persons / body parts per person in a keypoint array
MaxPersons == 2
MaxParts == 2
\* distinct keypoint contents per array shape, less one
MaxSeed == 1
\* image width and height in pixels
ImgW == 2
ImgH == 2
\* the clock ticks at most this often
MaxClock == 2
\* datums the producer returns in a run
MaxProduced == 2

(* --------------------------- program constants ------------------------- *)
\* x, y, score: the entries of one keypoint (baseIndex, +1, +2)
KpStride == 3

NoFlag == "<no --model_folder>"
Unset == "<unset>"
ModelDirParams == {"", "/param/models"}
CmdModelFolders == {NoFlag, "/cli/models"}
FrameIds == {"camera_color_optical_frame", "kinect"}

\* the state-changing steps of configureOpenPose, in source order
ConfigSteps ==
  << "log", "makeWorkers", "setWorkerInput", "setWorkerOutput", "pose", "face",
     "hand", "extra", "output", "gui", "threading" >>
NumConfigSteps == Len(ConfigSteps)
\* number of steps applied before the step that raises; NumConfigSteps: none raises
FailPoints == 0..NumConfigSteps

(* ------------------------------ scenarios ------------------------------ *)
\* A run is given its inputs (parameters, command line) and the size of its
\* world: how many images the camera delivers, how often the clock ticks, how
\* many datums the producer returns and which keypoint arrays the estimator
\* can answer with.  Startup is explored for every input in a small world; the
\* workers are explored in larger worlds for the inputs that start them.
ParamSets == [openpose_model_dir : ModelDirParams, frame_id : FrameIds]
CmdLines == [model_folder : CmdModelFolders, disable_multi_thread : BOOLEAN,
             config_error : FailPoints]

SmallWorld ==
  [colors |-> 1, depths |-> 1, ticks |-> 1, datums |-> 1, inflight |-> 1,
   persons |-> 1, parts |-> 1, seeds |-> 0]
\* many frames of many shapes
FrameWorld ==
  [SmallWorld EXCEPT !.datums = MaxProduced, !.inflight = MaxInFlight,
                     !.persons = MaxPersons, !.parts = MaxParts, !.seeds = MaxSeed]
\* many depth images under frames of several body parts
DepthWorld ==
  [SmallWorld EXCEPT !.depths = MaxDepth, !.datums = MaxProduced, !.parts = MaxParts]
\* many color images
ColorWorld == [SmallWorld EXCEPT !.colors = MaxColor, !.datums = MaxProduced]
\* many clock ticks
ClockWorld == [SmallWorld EXCEPT !.ticks = MaxClock, !.datums = MaxProduced]
Worlds == {FrameWorld, DepthWorld, ColorWorld, ClockWorld}

RunParams == {p \in ParamSets : p.openpose_model_dir # ""}
RunCmdLines == {c \in CmdLines : c.model_folder = NoFlag
                                 /\ c.config_error = NumConfigSteps}

Scenarios ==
  {<< p, c, SmallWorld >> : p \in ParamSets, c \in CmdLines}
    \cup {<< p, c, w >> : p \in RunParams, c \in RunCmdLines,
                          w \in Worlds}

VARIABLES
  pcMain,        \* position of main
  status,        \* how the process ended: "running", "exit(-1)", "return 0", "return -1"
  params,        \* the node's parameters: openpose_model_dir, frame_id
  cmdline,       \* command line: model_folder (or NoFlag), disable_multi_thread,
                 \* and the configuration step its flags make raise
  world,         \* the size of the run's world
  FLAGS_model_folder,
  flagsParsed, cameraCreated, advertised,
  wrapper,       \* op::Wrapper: what configureOpenPose applied, starts, stops
  colorImage,    \* CameraReader: latest color image (0 = empty)
  depthImage,    \* CameraReader: latest depth image (0 = empty)
  depthImageUsed,\* CameraReader: the copy compute3DPoint reads
  now,           \* ros::Time::now()
  prod,          \* WUserInput: running, last result, count of datums returned
  pipe,          \* datums handed to the pose estimator, not yet consumed
  cons,          \* WUserOutput: running, position, current datum and loop indices
  mFrame,        \* WUserOutput::mFrame
  wire,          \* the message publish() is sending, NoMsg outside publish()
  topic          \* the output topic: messages published, stamp of the last one

vars == << pcMain, status, params, cmdline, world, FLAGS_model_folder, flagsParsed,
           cameraCreated, advertised, wrapper, colorImage, depthImage,
           depthImageUsed, now, prod, pipe, cons, mFrame, wire, topic >>

mainVars == << pcMain, status, params, cmdline, world, FLAGS_model_folder,
               flagsParsed, cameraCreated, advertised, wrapper >>
inputVars == << params, cmdline, world >>
cameraVars == << colorImage, depthImage >>
workerVars == << prod, pipe, cons, mFrame, wire, topic, depthImageUsed >>

(* ------------------------------ keypoints ------------------------------ *)
\* entry k (0-based) of the flat keypoint data with content `seed`
KpValue(seed, k) ==
  LET kp == k \div KpStride
      c == k % KpStride
  IN  IF c = 0 THEN (kp + seed) % ImgW
      ELSE IF c = 1 THEN ((kp \div ImgW) + seed) % ImgH
      ELSE (7 * kp + 3 * seed + 1) % 10

\* op::Array<float>: sizes {persons, parts, 3} and the flat data; empty when
\* nobody was detected
KeypointArray(P, B, seed) ==
  IF P = 0 \/ B = 0
    THEN [sizes |-> << >>, data |-> << >>]
    ELSE [sizes |-> << P, B, KpStride >>,
          data |-> [k \in 1..(P * B * KpStride) |-> KpValue(seed, k - 1)]]

\* what the estimator can answer with in world w
KeypointArrays(w) ==
  {KeypointArray(0, 0, 0)} \cup
  {KeypointArray(P, B, s) : P \in 1..w.persons, B \in 1..w.parts, s \in 0..w.seeds}

\* op::Array::getSize(index): 0 for a dimension the array does not have
getSize(a, index) == IF index < Len(a.sizes) THEN a.sizes[index + 1] ELSE 0

\* op::Array::operator[](index), 0-based
At(a, index) == a.data[index + 1]

(* ----------------------------- camera reader --------------------------- *)
\* depth image `img` at row y, column x; the empty image has no depth
DepthAt(img, x, y) == IF img = 0 THEN 0 ELSE ImgW * ImgH * img + ImgW * y + x

\* camera intrinsics K = [fx 0 cx; 0 fy cy; 0 0 1]
Fx == 1
Fy == 1
Cx == 1
Cy == 1

\* CameraReader::compute3DPoint: inverse pinhole projection of pixel (x, y)
\* with the depth the image `img` has there
compute3DPoint(img, x, y) ==
  LET depth == DepthAt(img, x, y)
  IN  << ((x - Cx) * depth) \div Fx, ((y - Cy) * depth) \div Fy, depth >>

(* ------------------------------- messages ------------------------------ *)
EmptyPerson == [bodyParts |-> << >>]
EmptyBodyPart == [pixel |-> << 0, 0 >>, score |-> 0, point |-> << 0, 0, 0 >>]

\* std::vector::resize(n): keeps the first n elements, appends defaults
Resize(s, n, default) ==
  IF n <= Len(s) THEN SubSeq(s, 1, n)
  ELSE s \o [i \in 1..(n - Len(s)) |-> default]

NoDatum == [color |-> 0, depthAtProduce |-> 0, poseKeypoints |-> KeypointArray(0, 0, 0)]

(* --------------------------------- Init -------------------------------- *)
NoMsg == [frame_id |-> "<none>", stamp |-> 0, persons |-> << >>]

Init ==
  /\ pcMain = "checkModelDir"
  /\ status = "running"
  /\ \E sc \in Scenarios :
       /\ params = sc[1]
       /\ cmdline = sc[2]
       /\ world = sc[3]
  /\ FLAGS_model_folder = "models/"
  /\ flagsParsed = FALSE
  /\ cameraCreated = FALSE
  /\ advertised = FALSE
  /\ wrapper = [applied |-> 0, configured |-> FALSE, input |-> FALSE,
                output |-> FALSE, modelFolder |-> Unset, multiThread |-> TRUE,
                starts |-> 0, stops |-> 0, running |-> FALSE]
  /\ colorImage = 0
  /\ depthImage = 0
  /\ depthImageUsed = 0
  /\ now = 0
  /\ prod = [running |-> TRUE, result |-> "none", produced |-> 0, failedAt |-> -1,
             lastColor |-> 0]
  /\ pipe = << >>
  /\ cons = [running |-> TRUE, pc |-> "idle", input |-> "none", datum |-> NoDatum,
             person |-> 0, bodyPart |-> 0, completed |-> 0, depthAtBegin |-> 0,
             depthCopies |-> 0, startTime |-> 0, failedAt |-> -1,
             lastColor |-> 0]
  /\ mFrame = [frame_id |-> "", stamp |-> 0, persons |-> << >>]
  /\ wire = NoMsg
  /\ topic = [count |-> 0, stamp |-> 0]

(* --------------------------------- main -------------------------------- *)
\* as ModelDirMissing, with the test of line 371 left out
ModelDirMissing_Unchecked(dir) == FALSE

\* line 371: getParam leaves the string empty when the parameter is absent
ModelDirMissing(dir) == dir = ""

\* lines 364-375: the parameters are read; an empty model directory is fatal
CheckModelDir ==
  /\ pcMain = "checkModelDir"
  /\ IF ModelDirMissing(params.openpose_model_dir)
       THEN /\ pcMain' = "exited"
            /\ status' = "exit(-1)"
       ELSE /\ pcMain' = "assignModelFolder"
            /\ UNCHANGED status
  /\ UNCHANGED << inputVars, FLAGS_model_folder, flagsParsed, cameraCreated,
                  advertised, wrapper, cameraVars, now, workerVars >>

\* line 378
AssignModelFolder ==
  /\ pcMain = "assignModelFolder"
  /\ FLAGS_model_folder' = params.openpose_model_dir
  /\ pcMain' = "parseFlags"
  /\ UNCHANGED << status, inputVars, flagsParsed, cameraCreated, advertised,
                  wrapper, cameraVars, now, workerVars >>

\* as ParsedModelFolder, had the parameter been assigned after the parsing
ParsedModelFolder_ParamWins(current, given) == current

\* gflags: a flag given on the command line replaces the flag's current value
ParsedModelFolder(current, given) == IF given = NoFlag THEN current ELSE given

\* line 381
ParseCommandLineFlags ==
  /\ pcMain = "parseFlags"
  /\ FLAGS_model_folder' = ParsedModelFolder(FLAGS_model_folder, cmdline.model_folder)
  /\ flagsParsed' = TRUE
  /\ pcMain' = "cameraReader"
  /\ UNCHANGED << status, inputVars, cameraCreated, advertised, wrapper,
                  cameraVars, now, workerVars >>

\* line 383
CreateCameraReader ==
  /\ pcMain = "cameraReader"
  /\ cameraCreated' = TRUE
  /\ pcMain' = "advertise"
  /\ UNCHANGED << status, inputVars, FLAGS_model_folder, flagsParsed,
                  advertised, wrapper, cameraVars, now, workerVars >>

\* line 386
Advertise ==
  /\ pcMain = "advertise"
  /\ advertised' = TRUE
  /\ pcMain' = "configure"
  /\ UNCHANGED << status, inputVars, FLAGS_model_folder, flagsParsed,
                  cameraCreated, wrapper, cameraVars, now, workerVars >>

\* TRUE iff the configuration step `name` is among the first n steps
Applied(n, name) == \E i \in 1..n : ConfigSteps[i] = name

\* as ConfiguredWrapper, going on with the steps after the one that raised
ConfiguredWrapper_IgnoresError(w, n, modelFolder, disableMultiThread) ==
  [w EXCEPT !.applied = NumConfigSteps,
            !.configured = TRUE,
            !.input = TRUE,
            !.output = TRUE,
            !.modelFolder = modelFolder,
            !.multiThread = ~disableMultiThread]

\* the wrapper after configureOpenPose applied its first n steps
ConfiguredWrapper(w, n, modelFolder, disableMultiThread) ==
  [w EXCEPT !.applied = n,
            !.configured = TRUE,
            !.input = Applied(n, "setWorkerInput"),
            !.output = Applied(n, "setWorkerOutput"),
            !.modelFolder = IF Applied(n, "pose") THEN modelFolder ELSE @,
            !.multiThread = IF Applied(n, "threading") /\ disableMultiThread
                              THEN FALSE ELSE @]

\* lines 89-95: the output worker's constructor stores the frame id
WUserOutputInit(frame, frameId) == [frame EXCEPT !.frame_id = frameId]

\* lines 175-353, called at line 392: the steps run in order until one raises;
\* the exception is caught and logged inside, so the caller goes on
configureOpenPose ==
  /\ pcMain = "configure"
  /\ wrapper' = ConfiguredWrapper(wrapper, cmdline.config_error, FLAGS_model_folder,
                                  cmdline.disable_multi_thread)
  /\ mFrame' = IF Applied(cmdline.config_error, "makeWorkers")
                 THEN WUserOutputInit(mFrame, params.frame_id)
                 ELSE mFrame
  /\ pcMain' = "start"
  /\ UNCHANGED << status, inputVars, FLAGS_model_folder, flagsParsed,
                  cameraCreated, advertised, cameraVars, now, prod, pipe, cons,
                  wire, topic, depthImageUsed >>

\* line 395; an exception leaves through the handler at lines 407-411
WrapperStart ==
  /\ pcMain = "start"
  /\ \E throws \in BOOLEAN :
       IF throws
         THEN /\ wrapper' = [wrapper EXCEPT !.starts = @ + 1]
              /\ pcMain' = "returned"
              /\ status' = "return -1"
         ELSE /\ wrapper' = [wrapper EXCEPT !.starts = @ + 1, !.running = TRUE]
              /\ pcMain' = "spin"
              /\ UNCHANGED status
  /\ UNCHANGED << inputVars, FLAGS_model_folder, flagsParsed, cameraCreated,
                  advertised, cameraVars, now, workerVars >>

\* the workers and the camera reader are destroyed with the wrapper and the
\* node; what was published stays published
DestroyedProducer(p) == [p EXCEPT !.running = FALSE, !.result = "none",
                                  !.lastColor = 0]
DestroyedConsumer(c) == [c EXCEPT !.running = FALSE, !.input = "none",
                                  !.depthAtBegin = 0, !.depthCopies = 0,
                                  !.startTime = 0, !.lastColor = 0]
Teardown ==
  /\ prod' = DestroyedProducer(prod)
  /\ cons' = DestroyedConsumer(cons)
  /\ pipe' = << >>
  /\ mFrame' = [frame_id |-> "", stamp |-> 0, persons |-> << >>]
  /\ depthImageUsed' = 0
  /\ colorImage' = 0
  /\ depthImage' = 0
  /\ now' = 0
  /\ UNCHANGED << wire, topic >>

\* lines 398-401: ros::spin returns on shutdown, or raises
SpinReturn ==
  /\ pcMain = "spin"
  /\ \E throws \in BOOLEAN : pcMain' = IF throws THEN "unwind" ELSE "stop"
  /\ UNCHANGED << status, inputVars, FLAGS_model_folder, flagsParsed,
                  cameraCreated, advertised, wrapper, cameraVars, now, workerVars >>

\* lines 404-405: stop() lets each worker finish the call it is in; an
\* exception leaves through the handler at lines 407-411
WrapperStop ==
  /\ pcMain = "stop"
  /\ cons.pc = "idle"
  /\ wrapper' = [wrapper EXCEPT !.stops = @ + 1, !.running = FALSE]
  /\ pcMain' = "returned"
  /\ \E throws \in BOOLEAN : status' = IF throws THEN "return -1" ELSE "return 0"
  /\ Teardown
  /\ UNCHANGED << inputVars, FLAGS_model_folder, flagsParsed, cameraCreated,
                  advertised >>

\* lines 407-411 after spin raised: the wrapper goes out of scope, which ends
\* its threads
SpinCatch ==
  /\ pcMain = "unwind"
  /\ cons.pc = "idle"
  /\ wrapper' = [wrapper EXCEPT !.running = FALSE]
  /\ pcMain' = "returned"
  /\ status' = "return -1"
  /\ Teardown
  /\ UNCHANGED << inputVars, FLAGS_model_folder, flagsParsed, cameraCreated,
                  advertised >>

(* ------------------------ camera callbacks, clock ---------------------- *)
\* the color subscriber's callback, run by ros::spin
ColorCallback ==
  /\ pcMain = "spin"
  /\ cameraCreated
  /\ colorImage < world.colors
  /\ colorImage' = colorImage + 1
  /\ UNCHANGED << mainVars, depthImage, now, workerVars >>

\* the depth subscriber's callback, run by ros::spin
DepthCallback ==
  /\ pcMain = "spin"
  /\ cameraCreated
  /\ depthImage < world.depths
  /\ depthImage' = depthImage + 1
  /\ UNCHANGED << mainVars, colorImage, now, workerVars >>

\* time passes; the clock is read by the output worker only
Tick ==
  /\ wrapper.running
  /\ now < world.ticks
  /\ now' = now + 1
  /\ UNCHANGED << mainVars, cameraVars, workerVars >>

(* ------------------------------ WUserInput ----------------------------- *)
\* the library calls the producer while it runs and the estimator has room;
\* with multi-threading disabled it calls it once the previous datum is through
ProducerCallable ==
  /\ wrapper.running
  /\ wrapper.input
  /\ prod.running
  /\ Len(pipe) < world.inflight
  /\ wrapper.multiThread \/ (pipe = << >> /\ cons.pc = "idle")

\* as ProducerResult, were the producer to keep a record of the image it
\* supplied last and to pass over an image it has supplied already
ProducerResult_OnlyNew(color) ==
  IF color # 0 /\ color # prod.lastColor THEN "datum" ELSE "null"

\* lines 49-68: "datum" when the latest color image is not empty
ProducerResult(color) == IF color # 0 THEN "datum" ELSE "null"

\* as ProducerSkip, stopping the worker as the handler of lines 70-75 does
ProducerSkip_Stops(p) == [p EXCEPT !.result = "null", !.running = FALSE]

\* lines 63-68: an empty image is passed over with a warning
ProducerSkip(p) == [p EXCEPT !.result = "null"]

\* lines 70-75: the handler stops the worker
ProducerCatch(p, published) ==
  [p EXCEPT !.running = FALSE, !.result = "null", !.failedAt = published]

\* lines 40-76
workProducer ==
  /\ ProducerCallable
  /\ \E throws \in BOOLEAN :
       IF throws
         THEN /\ prod' = ProducerCatch(prod, topic.count)
              /\ UNCHANGED pipe
         ELSE IF ProducerResult(colorImage) = "datum"
           THEN /\ prod.produced < world.datums
                /\ pipe' = Append(pipe, [color |-> colorImage,
                                         depthAtProduce |-> depthImage])
                /\ prod' = [prod EXCEPT !.result = "datum", !.produced = @ + 1,
                                        !.lastColor = colorImage]
           ELSE /\ prod' = ProducerSkip(prod)
                /\ UNCHANGED pipe
  /\ UNCHANGED << mainVars, cameraVars, now, cons, mFrame, wire, topic,
                  depthImageUsed >>

(* ------------------------------ WUserOutput ---------------------------- *)
ConsumerCallable ==
  /\ wrapper.running
  /\ wrapper.output
  /\ cons.running
  /\ cons.pc = "idle"

\* as ConsumerCatch, with the stop() of line 163 left out
ConsumerCatch_NoStop(c, published) ==
  [c EXCEPT !.pc = "idle", !.failedAt = published, !.datum = NoDatum,
            !.person = 0, !.bodyPart = 0]

\* lines 161-165: the handler stops the worker
ConsumerCatch(c, published) ==
  [c EXCEPT !.running = FALSE, !.pc = "idle", !.failedAt = published,
            !.datum = NoDatum, !.person = 0, !.bodyPart = 0]

\* CameraReader::copyLatestDepthImage: the copy becomes the latest depth image
copyLatestDepthImage(latest) == latest

\* as BeginFrame, with the stamp update of line 112 left out
BeginFrame_KeepsStamp(frame, time, personCount) ==
  [frame EXCEPT !.persons = Resize(<< >>, personCount, EmptyPerson)]

\* lines 111-115 and 124: stamp, clear, resize to the number of persons
BeginFrame(frame, time, personCount) ==
  [frame EXCEPT !.stamp = time,
                !.persons = Resize(<< >>, personCount, EmptyPerson)]

\* as baseIndex, with the roles of person and body part exchanged
baseIndex_Transposed(a, person, bodyPart) ==
  getSize(a, 2) * (bodyPart * getSize(a, 0) + person)

\* line 141
baseIndex(a, person, bodyPart) ==
  getSize(a, 2) * (person * getSize(a, 1) + bodyPart)

\* line 129: at the first body part of a person, its list gets its size
ResizeBodyParts(frame, person, bodyPart, bodyPartCount) ==
  IF bodyPart = 0
    THEN [frame EXCEPT !.persons[person + 1].bodyParts =
                         Resize(@, bodyPartCount, EmptyBodyPart)]
    ELSE frame

\* lines 141-154: one body part of one person
FillBodyPart(frame, a, img, person, bodyPart) ==
  LET base == baseIndex(a, person, bodyPart)
      x == At(a, base)
      y == At(a, base + 1)
      score == At(a, base + 2)
  IN  [frame EXCEPT !.persons[person + 1].bodyParts[bodyPart + 1] =
         [pixel |-> << x, y >>, score |-> score,
          point |-> compute3DPoint(img, x, y)]]

\* as DepthInLoop, with copyLatestDepthImage called before each compute3DPoint
DepthInLoop_CopiesAgain(used, latest) == copyLatestDepthImage(latest)

\* lines 127-155 do not call copyLatestDepthImage: the loops keep the copy
DepthInLoop(used, latest) == used

\* line 106: the datum list is processed when it is neither null nor empty
IsProcessable(input) == input # "null" /\ input # "empty"

\* as AfterResize, returning at once when nobody was detected
AfterResize_SkipsEmpty(personCount) == IF personCount = 0 THEN "return" ELSE "loop"

\* the position after line 124: the loops when there are persons, else line 158
AfterResize(personCount) == IF personCount = 0 THEN "publish" ELSE "loop"

\* as DepthAtBegin, with the call of line 118 left out
DepthAtBegin_NoCopy(used, latest) == used

\* lines 117-118: the copy taken for this datum
DepthAtBegin(used, latest) == copyLatestDepthImage(latest)

\* lines 102-107, 160-166: a null or an empty datum list is passed over
ConsumerSkip ==
  /\ ConsumerCallable
  /\ \E kind \in {"null", "empty"} :
       /\ ~IsProcessable(kind)
       /\ cons' = [cons EXCEPT !.input = kind]
  /\ UNCHANGED << mainVars, cameraVars, now, prod, pipe, mFrame, wire, topic,
                  depthImageUsed >>

\* lines 106-124: the datum arrives with the estimator's keypoints
ConsumerBegin ==
  /\ ConsumerCallable
  /\ pipe # << >>
  /\ IsProcessable("datum")
  /\ \E kp \in KeypointArrays(world), throws \in BOOLEAN :
       LET datum == [color |-> Head(pipe).color,
                     depthAtProduce |-> Head(pipe).depthAtProduce,
                     poseKeypoints |-> kp]
           personCount == getSize(kp, 0)
           c == [cons EXCEPT !.input = "datum", !.datum = datum, !.person = 0,
                             !.bodyPart = 0, !.depthAtBegin = depthImage,
                             !.depthCopies = 1, !.startTime = now]
       IN  /\ depthImageUsed' = DepthAtBegin(depthImageUsed, depthImage)
           /\ IF throws
                THEN /\ mFrame' = BeginFrame(mFrame, now, 0)
                     /\ cons' = ConsumerCatch(c, topic.count)
                ELSE /\ mFrame' = BeginFrame(mFrame, now, personCount)
                     /\ cons' = [c EXCEPT !.pc = AfterResize(personCount)]
  /\ pipe' = Tail(pipe)
  /\ UNCHANGED << mainVars, cameraVars, now, prod, wire, topic >>

\* lines 127-155: one pass of the inner loop
ConsumerBodyPart ==
  /\ wrapper.running
  /\ cons.running
  /\ cons.pc = "loop"
  /\ \E throws \in BOOLEAN :
       LET a == cons.datum.poseKeypoints
           personCount == getSize(a, 0)
           bodyPartCount == getSize(a, 1)
           sized == ResizeBodyParts(mFrame, cons.person, cons.bodyPart, bodyPartCount)
           used == DepthInLoop(depthImageUsed, depthImage)
           lastPart == cons.bodyPart + 1 = bodyPartCount
           lastPerson == cons.person + 1 = personCount
       IN  /\ depthImageUsed' = used
           /\ IF throws
                THEN /\ mFrame' = sized
                     /\ cons' = ConsumerCatch(cons, topic.count)
                ELSE /\ mFrame' = FillBodyPart(sized, a, used, cons.person,
                                               cons.bodyPart)
                     /\ cons' = [cons EXCEPT
                          !.depthCopies = IF used = depthImageUsed THEN @ ELSE @ + 1,
                          !.bodyPart = IF lastPart THEN 0 ELSE @ + 1,
                          !.person = IF lastPart THEN @ + 1 ELSE @,
                          !.pc = IF lastPart /\ lastPerson THEN "publish" ELSE "loop"]
  /\ UNCHANGED << mainVars, cameraVars, now, prod, pipe, wire, topic >>

\* line 158: the message sent is the frame as it is now
PublishedMessage(frame) == frame

\* line 158
ConsumerPublish ==
  /\ wrapper.running
  /\ cons.running
  /\ cons.pc = "publish"
  /\ \E throws \in BOOLEAN :
       IF throws
         THEN /\ cons' = ConsumerCatch(cons, topic.count)
              /\ UNCHANGED << wire, topic >>
         ELSE /\ wire' = PublishedMessage(mFrame)
              /\ topic' = [count |-> topic.count + 1, stamp |-> wire'.stamp]
              /\ cons' = [cons EXCEPT !.pc = "return"]
  /\ UNCHANGED << mainVars, cameraVars, now, prod, pipe, mFrame, depthImageUsed >>

\* lines 159-166: workConsumer returns
ConsumerReturn ==
  /\ wrapper.running
  /\ cons.running
  /\ cons.pc = "return"
  /\ wire' = NoMsg
  /\ cons' = [cons EXCEPT !.pc = "idle", !.completed = @ + 1, !.datum = NoDatum,
                          !.person = 0, !.bodyPart = 0,
                          !.lastColor = cons.datum.color]
  /\ UNCHANGED << mainVars, cameraVars, now, prod, pipe, mFrame, topic,
                  depthImageUsed >>

(* --------------------------------- Next -------------------------------- *)
Next ==
  \/ CheckModelDir
  \/ AssignModelFolder
  \/ ParseCommandLineFlags
  \/ CreateCameraReader
  \/ Advertise
  \/ configureOpenPose
  \/ WrapperStart
  \/ SpinReturn
  \/ WrapperStop
  \/ SpinCatch
  \/ ColorCallback
  \/ DepthCallback
  \/ Tick
  \/ workProducer
  \/ ConsumerSkip
  \/ ConsumerBegin
  \/ ConsumerBodyPart
  \/ ConsumerPublish
  \/ ConsumerReturn

Spec == Init /\ [][Next]_vars

(* ======================================================================= *)
(*                                 Claims                                  *)
(* ======================================================================= *)

\* C1 (as claimed): once the producer or the consumer has caught an
\* exception, no frame message is published for the rest of the run.
C1_NoPublishAfterFailure ==
  /\ prod.failedAt >= 0 => topic.count = prod.failedAt
  /\ cons.failedAt >= 0 => topic.count = cons.failedAt

\* C1 (amended): a producer that catches an exception stops itself and returns no
\* datum, and hands no datum to the estimator afterwards (datums handed over
\* before may still be published); a consumer that catches an exception stops
\* itself, publishes nothing for the datum it was processing, and nothing is
\* published afterwards.
C1_FailureStopsWorker ==
  [][ /\ (prod.failedAt < 0 /\ prod'.failedAt >= 0)
          => (~prod'.running /\ prod'.result = "null" /\ pipe' = pipe
              /\ prod'.produced = prod.produced)
      /\ prod.failedAt >= 0
          => (~prod'.running /\ prod'.produced = prod.produced
              /\ Len(pipe') <= Len(pipe) /\ prod'.failedAt = prod.failedAt)
      /\ (cons.failedAt < 0 /\ cons'.failedAt >= 0)
          => (~cons'.running /\ topic' = topic /\ wire' = NoMsg
              /\ cons'.completed = cons.completed)
      /\ cons.failedAt >= 0
          => (~cons'.running /\ topic' = topic /\ wire' = NoMsg
              /\ cons'.failedAt = cons.failedAt)
    ]_vars

\* after a first message, the consumer failed on the next datum and the
\* producer failed too
C1_Witness ==
  /\ topic.count >= 1
  /\ cons.failedAt = topic.count
  /\ prod.failedAt = topic.count
  /\ prod.produced > topic.count
  /\ pcMain = "spin"

\* C2: with the parameter openpose_model_dir absent or empty, main exits with
\* status -1 before the flags are parsed, the camera reader is created, the
\* topic is advertised and the wrapper is configured or started, and nothing is
\* ever published.
C2_MissingModelDirIsFatal ==
  params.openpose_model_dir = ""
    => /\ pcMain \in {"checkModelDir", "exited"}
       /\ pcMain = "exited" <=> status = "exit(-1)"
       /\ pcMain = "checkModelDir" <=> status = "running"
       /\ ~flagsParsed
       /\ FLAGS_model_folder = "models/"
       /\ ~cameraCreated
       /\ ~advertised
       /\ ~wrapper.configured
       /\ wrapper.starts = 0
       /\ ~wrapper.running
       /\ topic.count = 0
       /\ wire = NoMsg

C2_Witness == pcMain = "exited" /\ status = "exit(-1)" /\ params.frame_id = "kinect"

\* a call of workProducer that returns a datum
ProduceDatum == workProducer /\ prod'.result = "datum"

\* the library would call the producer now, were it running, and the world
\* has a datum left
ProducerDue ==
  /\ wrapper.running
  /\ wrapper.input
  /\ Len(pipe) < world.inflight
  /\ wrapper.multiThread \/ (pipe = << >> /\ cons.pc = "idle")
  /\ prod.produced < world.datums

\* C3: with the latest color image empty, workProducer returns null and does not
\* stop the producer, so that a non-empty image arriving later is produced; a
\* null or empty datum list makes workConsumer publish nothing, leave the stored
\* frame message unchanged and not stop the consumer.
C3_EmptyFrameSkipped ==
  /\ [](prod.result = "null" /\ prod.failedAt < 0 => prod.running)
  /\ [](prod.result = "null" /\ prod.failedAt < 0 /\ colorImage # 0 /\ ProducerDue
          => ENABLED ProduceDatum)
  /\ [][ /\ (colorImage = 0 /\ prod' # prod /\ wrapper'.running /\ prod'.failedAt < 0)
             => (prod'.result = "null" /\ prod'.running /\ pipe' = pipe
                 /\ prod'.produced = prod.produced)
         /\ (cons'.input \in {"null", "empty"} /\ cons'.input # cons.input)
             => (mFrame' = mFrame /\ topic' = topic /\ wire' = wire
                 /\ cons'.running /\ cons'.pc = "idle"
                 /\ cons'.failedAt = cons.failedAt /\ pipe' = pipe)
       ]_vars

\* the producer returned null on an empty image, a non-empty image has arrived
\* since and can be produced; the consumer passed over an empty datum list
C3_Witness ==
  /\ prod.result = "null"
  /\ prod.running
  /\ colorImage # 0
  /\ ENABLED ProduceDatum
  /\ cons.input = "empty"
  /\ cons.running

\* the consumer is inside a call that has not reached publish()
InProgress == cons.pc \in {"loop", "publish"}

\* C4: every call of workConsumer with a non-empty datum list that raises no
\* exception publishes exactly one message, once all persons and body parts are
\* filled in; the messages published number the datums consumed without error,
\* and a datum with no person gives a message with no person.
C4_OneMessagePerFrame ==
  /\ topic.count = cons.completed + (IF cons.pc = "return" THEN 1 ELSE 0)
  /\ wrapper.running
       => topic.count = prod.produced - Len(pipe)
                          - (IF InProgress THEN 1 ELSE 0)
                          - (IF cons.failedAt >= 0 THEN 1 ELSE 0)
  /\ InProgress => wire = NoMsg
  /\ cons.pc = "return"
       => /\ wire = mFrame
          /\ cons.person = getSize(cons.datum.poseKeypoints, 0)
          /\ cons.bodyPart = 0
          /\ Len(wire.persons) = getSize(cons.datum.poseKeypoints, 0)
          /\ \A p \in 1..Len(wire.persons) :
               Len(wire.persons[p].bodyParts) = getSize(cons.datum.poseKeypoints, 1)

\* the second message of a run is one for a datum without persons
C4_Witness ==
  /\ cons.pc = "return"
  /\ topic.count = 2
  /\ wire.persons = << >>
  /\ getSize(cons.datum.poseKeypoints, 0) = 0

\* the persons of the message for keypoint array a under depth image img
Mirror(a, img) ==
  [p \in 1..getSize(a, 0) |->
    [bodyParts |->
      [b \in 1..getSize(a, 1) |->
        LET i == getSize(a, 2) * ((p - 1) * getSize(a, 1) + (b - 1))
            x == a.data[i + 1]
            y == a.data[i + 2]
        IN  [pixel |-> << x, y >>, score |-> a.data[i + 3],
             point |-> compute3DPoint(img, x, y)]]]]

\* C5: a published message has getSize(0) persons of getSize(1) body parts
\* each, in order; body part b of person p has pixel and score from the entries
\* at getSize(2)*(p*getSize(1)+b) + 0, +1, +2 and the 3D point computed for that
\* pixel, whatever the datums consumed before.
C5_MessageMirrorsKeypoints ==
  cons.pc = "return" => wire.persons = Mirror(cons.datum.poseKeypoints, depthImageUsed)

\* the second message of a run, for one person with one body part where the
\* estimator can report more of both
C5_Witness ==
  /\ cons.pc = "return"
  /\ topic.count = 2
  /\ world.persons >= 2
  /\ world.parts >= 2
  /\ Len(wire.persons) = 1
  /\ Len(wire.persons[1].bodyParts) = 1

\* C6 (as claimed): the depth image the points of a published message were
\* computed from is the one that was the latest when the producer handed the
\* datum's color image to the estimator.
C6_DepthOfProducerTime ==
  cons.pc = "return"
    => /\ depthImageUsed = cons.datum.depthAtProduce
       /\ wire.persons = Mirror(cons.datum.poseKeypoints, cons.datum.depthAtProduce)

\* C6 (amended): the depth image the points of a published message were computed
\* from is the one that was the latest when the consumer began to process the
\* datum: the one of the producer's time or a later one.
C6_DepthOfConsumerTime ==
  cons.pc = "return"
    => /\ wire.persons = Mirror(cons.datum.poseKeypoints, cons.depthAtBegin)
       /\ cons.depthAtBegin >= cons.datum.depthAtProduce

\* a message with persons whose depth image arrived after the producer handed
\* over the color image, replacing an earlier depth image
C6_Witness ==
  /\ cons.pc = "return"
  /\ wire.persons # << >>
  /\ cons.datum.depthAtProduce > 0
  /\ cons.depthAtBegin > cons.datum.depthAtProduce

\* the model folder main leaves in the flag for the given inputs
ExpectedModelFolder ==
  IF cmdline.model_folder = NoFlag THEN params.openpose_model_dir
  ELSE cmdline.model_folder

\* C7: the model folder handed to the estimator is the parameter's value when
\* no --model_folder flag is given and the flag's value when one is given; the
\* flag does not make a run with an empty parameter start.
C7_ModelFolderForwarded ==
  /\ flagsParsed => FLAGS_model_folder = ExpectedModelFolder
  /\ wrapper.modelFolder # Unset => wrapper.modelFolder = ExpectedModelFolder
  /\ (wrapper.configured /\ Applied(cmdline.config_error, "pose"))
       => wrapper.modelFolder = ExpectedModelFolder
  /\ (params.openpose_model_dir = "" /\ cmdline.model_folder # NoFlag)
       => (wrapper.modelFolder = Unset /\ wrapper.starts = 0 /\ ~flagsParsed)

\* a started run whose estimator got the command line's folder, not the
\* parameter's
C7_Witness ==
  /\ wrapper.starts = 1
  /\ wrapper.modelFolder = "/cli/models"
  /\ params.openpose_model_dir = "/param/models"

\* body part b of person p (from 1) has been filled in by the loops
Filled(p, b) ==
  \/ p - 1 < cons.person
  \/ p - 1 = cons.person /\ b - 1 < cons.bodyPart

\* C8: the depth image is copied once per datum, before the loops, and not
\* again: every point of the frame is computed from that copy, also when a
\* depth image arrives while the datum is processed.
C8_OneDepthSnapshotPerFrame ==
  cons.pc \in {"loop", "publish", "return"}
    => /\ cons.depthCopies = 1
       /\ depthImageUsed = cons.depthAtBegin
       /\ \A p \in 1..Len(mFrame.persons) :
            \A b \in 1..Len(mFrame.persons[p].bodyParts) :
              Filled(p, b)
                => mFrame.persons[p].bodyParts[b].point =
                     compute3DPoint(cons.depthAtBegin,
                                    mFrame.persons[p].bodyParts[b].pixel[1],
                                    mFrame.persons[p].bodyParts[b].pixel[2])

\* a message of two body parts, published after a depth image arrived during
\* its processing
C8_Witness ==
  /\ cons.pc = "return"
  /\ cons.depthAtBegin > 0
  /\ depthImage > cons.depthAtBegin
  /\ wire.persons # << >>
  /\ Len(wire.persons[1].bodyParts) >= 2

\* C9: a published message carries the frame id given to the output worker's
\* constructor, which no consumer call changes, and the clock time read when
\* the processing of its datum began; stamps of successive messages do not
\* decrease.
C9_HeaderOfPublishedFrame ==
  /\ [](cons.pc = "return"
          => (wire.frame_id = params.frame_id /\ wire.stamp = cons.startTime))
  /\ [](wrapper.running /\ wrapper.output => mFrame.frame_id = params.frame_id)
  /\ [][topic'.count > topic.count
          => (topic'.stamp >= topic.stamp /\ topic'.stamp = wire'.stamp)]_vars

\* a second message, stamped with a time after the start of the run and before
\* the time of its publication
C9_Witness ==
  /\ cons.pc = "return"
  /\ topic.count = 2
  /\ wire.stamp > 0
  /\ now > wire.stamp
  /\ wire.frame_id = "kinect"

\* the place of configuration step `name` in configureOpenPose
StepIndex(name) == CHOOSE i \in 1..NumConfigSteps : ConfigSteps[i] = name

\* C10: the wrapper is configured, then started exactly once, then the node
\* spins, stop() is called only after spin returned and main returns 0; an
\* exception out of start, spin or stop makes main return -1; an error inside
\* configureOpenPose leaves the steps after it unapplied and does not keep main
\* from starting the wrapper.
C10_StartupShutdownOrder ==
  /\ [](wrapper.starts <= 1 /\ wrapper.stops <= 1)
  /\ [](wrapper.starts = 1 => wrapper.configured)
  /\ [](pcMain = "spin" => (wrapper.starts = 1 /\ wrapper.stops = 0 /\ wrapper.running))
  /\ [](wrapper.stops = 1 => pcMain = "returned")
  /\ [](status = "return 0" => (wrapper.starts = 1 /\ wrapper.stops = 1))
  /\ [](wrapper.configured
          => /\ wrapper.applied = cmdline.config_error
             /\ wrapper.input = (StepIndex("setWorkerInput") <= cmdline.config_error)
             /\ wrapper.output = (StepIndex("setWorkerOutput") <= cmdline.config_error)
             /\ (wrapper.modelFolder # Unset) = (StepIndex("pose") <= cmdline.config_error)
             /\ wrapper.multiThread = ~(/\ StepIndex("threading") <= cmdline.config_error
                                        /\ cmdline.disable_multi_thread))
  /\ [](pcMain = "start" => ENABLED WrapperStart)
  /\ [][ /\ wrapper'.starts > wrapper.starts => (pcMain = "start" /\ wrapper.configured)
         /\ wrapper'.stops > wrapper.stops => pcMain = "stop"
         /\ (pcMain' = "stop" /\ pcMain # "stop") => pcMain = "spin"
         /\ (pcMain' = "spin" /\ pcMain # "spin") => pcMain = "start"
         /\ (pcMain = "configure" /\ pcMain' # "configure") => pcMain' = "start"
         /\ (pcMain = "unwind" /\ pcMain' # "unwind") => status' = "return -1"
         /\ (status' = "return -1" /\ status # "return -1")
              => pcMain \in {"start", "unwind", "stop"}
         /\ (status' = "return 0" /\ status # "return 0") => pcMain = "stop"
       ]_vars

\* a run whose configuration failed at the logging level check and that still
\* started, spun, stopped and returned 0
C10_Witness ==
  /\ cmdline.config_error = 0
  /\ wrapper.applied = 0
  /\ wrapper.starts = 1
  /\ wrapper.stops = 1
  /\ status = "return 0"

\* a call of workProducer that returned without raising
ProducerReturned == workProducer /\ prod'.failedAt = prod.failedAt

\* C11: with the latest color image non-empty, a call of workProducer that
\* returns hands over exactly one datum, whose input image is that latest
\* color image, whether or not the image was supplied before; while no new
\* image arrives, the producer supplies the image it supplied last again as
\* soon as it is called, and the datum of a published message is one the
\* producer supplied from an image the camera delivered.
C11_SameImageSuppliedAgain ==
  /\ [][ProducerReturned /\ colorImage # 0
          => /\ prod'.result = "datum"
             /\ prod'.produced = prod.produced + 1
             /\ Len(pipe') = Len(pipe) + 1
             /\ SubSeq(pipe', 1, Len(pipe)) = pipe
             /\ pipe'[Len(pipe')].color = colorImage
             /\ prod'.lastColor = colorImage]_vars
  /\ [](prod.running /\ ProducerDue /\ colorImage # 0
          /\ prod.lastColor = colorImage
          => ENABLED (ProduceDatum /\ pipe'[Len(pipe')].color = prod.lastColor))
  /\ [](cons.pc = "return"
          => cons.datum.color \in 1..colorImage /\ cons.datum.color <= prod.lastColor)

\* two messages were published from the same color image: the consumer has
\* just published the second one, while the camera could have delivered a
\* newer image and has not
C11_Witness ==
  /\ pcMain = "spin"
  /\ cons.pc = "return"
  /\ wire # NoMsg
  /\ topic.count >= 2
  /\ cons.lastColor # 0
  /\ cons.datum.color = cons.lastColor
  /\ colorImage = cons.lastColor
  /\ colorImage < world.colors

====
